---- MODULE Spec2Model ----
(***************************************************************************)
(* Inventory manager ("Gestion de Stock"): the in-memory inventory, the    *)
(* store file data.txt, the change log inventory.txt and the menu          *)
(* operations of main() that act on them.                                  *)
(*                                                                         *)
(* C strings are sequences of one-character strings.  A float price is a   *)
(* number of thousandths (500000 is 500.000), so that "%.2f" rounds and    *)
(* "%f" parses instead of being the identity.  A file is NoFile (it does   *)
(* not exist) or the sequence of its lines, without their line ends.       *)
(* Console input is well formed: every prompt receives one token of the    *)
(* type it asks for, no longer than the width of its conversion.           *)
(*                                                                         *)
(* A value that is computed once and read several times is bound by a      *)
(* quantifier over a one-element set, CHOOSE r \in {F(x) : x \in {e}} : TRUE *)
(* or \E x \in {e} : A(x), so that it is evaluated once.                    *)
(***************************************************************************)
EXTENDS Integers, Sequences, FiniteSets, TLC

VARIABLES
    pc,           \* "boot": main() not yet past load_inventory; "menu"; "crashed"
    inv,          \* Invent: products[0 .. product_count-1]; product_count = Len(inv)
    store,        \* data.txt
    log,          \* inventory.txt
    dataWritable, \* whether fopen(Data, "w") succeeds
    logWritable,  \* whether fopen(LOG_FILE, "a" / "w") succeeds
    last,         \* the last operation: what was called, with what, what it returned
    out,          \* the lines display_recent_changes printed last
    steps         \* menu choices and file-system events so far

vars == <<pc, inv, store, log, dataWritable, logWritable, last, out, steps>>

-----------------------------------------------------------------------------
(* Program constants and bounds *)

Max == 1000          \* product.h: #define Max 1000
NameW == 49          \* "%49[^,]", "%49s"
IdW == 9             \* "%9[^,]", "%9s"
CatW == 29           \* "%29[^,]", "%29s"
DateW == 10          \* "%10[^,\n]"
IdSize == 10         \* char id[10]
LinesMax == 100      \* char lines[100][256]; total < 100
MenuRecentCount == 10 \* display_recent_changes(10)
LineBuf == 256       \* char line[256] of load_inventory
DefaultMinStock == 5 \* init_prod: p->min_stock = 5

MaxSteps == 3        \* events per run
MaxShown == 4        \* display_recent_changes(n) is tried for n in 0..MaxShown and near LinesMax,
                     \* on logs of 0..MaxShown lines and of about LinesMax lines

\* a file: whether it exists, and its lines
NoFile == [exists |-> FALSE, lines |-> <<>>]

File(lines) == [exists |-> TRUE, lines |-> lines]

-----------------------------------------------------------------------------
(* Characters, and the conversions of printf and scanf *)

Digits == <<"0", "1", "2", "3", "4", "5", "6", "7", "8", "9">>

IsDigit(c) == c \in {"0", "1", "2", "3", "4", "5", "6", "7", "8", "9"}

DigitVal(c) == CHOOSE d \in 0..9 : Digits[d + 1] = c

IsSpace(c) == c \in {" ", "\t"}

RECURSIVE NatToStr(_)
NatToStr(n) ==
    IF n < 10 THEN <<Digits[n + 1]>>
    ELSE Append(NatToStr(n \div 10), Digits[(n % 10) + 1])

\* "%d"
FmtD(n) == IF n < 0 THEN <<"-">> \o NatToStr(-n) ELSE NatToStr(n)

Zeros(k) == [i \in 1..k |-> "0"]

\* "%03d": zero-padded to a width of at least 3, the sign counted in the width
Fmt03d(n) ==
    LET s == NatToStr(IF n < 0 THEN -n ELSE n)
        w == IF n < 0 THEN 2 ELSE 3
        body == IF Len(s) >= w THEN s ELSE Zeros(w - Len(s)) \o s
    IN  IF n < 0 THEN <<"-">> \o body ELSE body

\* "%.2f" of a price in thousandths: rounded to hundredths, two decimals
Fmt2f(x) ==
    LET a == IF x < 0 THEN -x ELSE x
        h == (a + 5) \div 10
        frac == <<Digits[((h % 100) \div 10) + 1], Digits[(h % 10) + 1]>>
        body == NatToStr(h \div 100) \o <<".">> \o frac
    IN  IF x < 0 THEN <<"-">> \o body ELSE body

\* the number the digits s[1 .. k] spell
RECURSIVE DecValUpTo(_, _)
DecValUpTo(s, k) ==
    IF k = 0 THEN 0 ELSE 10 * DecValUpTo(s, k - 1) + DigitVal(s[k])

DecVal(s) == DecValUpTo(s, Len(s))

\* the first position from i on that holds no white space (Len(s)+1: none)
SkipWs(s, i) ==
    CHOOSE j \in i..(Len(s) + 1) :
        /\ (j = Len(s) + 1 \/ ~IsSpace(s[j]))
        /\ \A k \in i..(j - 1) : IsSpace(s[k])

\* the first position from i on that holds no digit
DigitsEnd(s, i) ==
    CHOOSE j \in i..(Len(s) + 1) :
        /\ (j = Len(s) + 1 \/ ~IsDigit(s[j]))
        /\ \A k \in i..(j - 1) : IsDigit(s[k])

HasSign(s, i) == i <= Len(s) /\ s[i] \in {"+", "-"}

\* scanf "%d" at position i: white space skipped, a sign, at least one digit
ScanD(s, i) ==
    CHOOSE r \in
        {LET neg == HasSign(s, a) /\ s[a] = "-"
             b == IF HasSign(s, a) THEN a + 1 ELSE a
         IN  CHOOSE q \in
                 {IF e = b THEN [ok |-> FALSE, val |-> 0, next |-> i]
                  ELSE [ok |-> TRUE,
                        val |-> IF neg THEN -DecVal(SubSeq(s, b, e - 1))
                                ELSE DecVal(SubSeq(s, b, e - 1)),
                        next |-> e]
                  : e \in {DigitsEnd(s, b)}} : TRUE
         : a \in {SkipWs(s, i)}} : TRUE

\* the value in thousandths of the integer digits s[b .. e-1] and the
\* decimals s[e+1 .. f-1], decimals after the third dropped
Thousandths(s, b, e, f) ==
    1000 * DecVal(SubSeq(s, b, e - 1))
        + DecVal(SubSeq(SubSeq(s, e + 1, f - 1) \o Zeros(3), 1, 3))

\* scanf "%f" at position i, for decimal text: white space skipped, a sign,
\* digits, a point, digits, with a digit on at least one side of the point
ScanF(s, i) ==
    CHOOSE r \in
        {LET neg == HasSign(s, a) /\ s[a] = "-"
             b == IF HasSign(s, a) THEN a + 1 ELSE a
         IN  CHOOSE q \in
                 {LET point == e <= Len(s) /\ s[e] = "."
                      f == IF point THEN DigitsEnd(s, e + 1) ELSE e
                  IN  IF e = b /\ (~point \/ f = e + 1)
                      THEN [ok |-> FALSE, val |-> 0, next |-> i]
                      ELSE [ok |-> TRUE,
                            val |-> IF neg THEN -Thousandths(s, b, e, f)
                                    ELSE Thousandths(s, b, e, f),
                            next |-> f]
                  : e \in {DigitsEnd(s, b)}} : TRUE
         : a \in {SkipWs(s, i)}} : TRUE

\* the end of the run of at most w characters outside stops that starts at i
SetEnd(s, i, w, stops) ==
    CHOOSE j \in i..(Len(s) + 1) :
        /\ (j = Len(s) + 1 \/ s[j] \in stops \/ j = i + w)
        /\ \A k \in i..(j - 1) : s[k] \notin stops

\* scanf "%w[^stops]" at position i: 1 to w characters, none of them in stops
ScanSet(s, i, w, stops) ==
    CHOOSE r \in
        {IF e = i THEN [ok |-> FALSE, val |-> <<>>, next |-> i]
         ELSE [ok |-> TRUE, val |-> SubSeq(s, i, e - 1), next |-> e]
         : e \in {SetEnd(s, i, w, stops)}} : TRUE

\* a literal comma of the format at position i
Comma(s, i) == i <= Len(s) /\ s[i] = ","

\* atoi: white space, a sign, digits; 0 when there is no digit
atoi(s) ==
    LET r == ScanD(s, 1) IN IF r.ok THEN r.val ELSE 0

-----------------------------------------------------------------------------
(* The strings a Prod holds.  name[50], id[10] and category[30] lie one     *)
(* after the other: an id of IdSize characters leaves no room for its NUL, *)
(* and read as a C string it runs on into category.                        *)

StrId(p) == IF Len(p.id) >= IdSize THEN p.id \o p.category ELSE p.id

\* a NULL Prod pointer
Null == [null |-> TRUE]

-----------------------------------------------------------------------------
(* product.c *)

\* the date init_prod and input_product stamp: "%04d-%02d-%02d" of the clock
Today == <<"2", "0", "2", "5", "-", "0", "1", "-", "1", "5">>

init_prod ==
    [name |-> <<>>, id |-> <<>>, category |-> <<>>, quantity |-> 0,
     price |-> 0, min_stock |-> DefaultMinStock, date |-> Today]

init_invent == <<>>

is_low_stock(p) == p.quantity <= p.min_stock

HasPrefixP(id) == Len(id) >= 1 /\ id[1] = "P"

\* the loop of generate_unique_id: max_id after products[0 .. k-1]
RECURSIVE MaxIdUpTo(_, _)
MaxIdUpTo(iv, k) ==
    IF k = 0 THEN 0
    ELSE CHOOSE r \in
             {IF HasPrefixP(StrId(iv[k])) /\ atoi(Tail(StrId(iv[k]))) > m
              THEN atoi(Tail(StrId(iv[k]))) ELSE m
              : m \in {MaxIdUpTo(iv, k - 1)}} : TRUE

\* generate_unique_id numbering from product_count instead of the maximum
generate_id_by_count(iv) == <<"P">> \o Fmt03d(Len(iv) + 1)

\* the characters sprintf(id, "P%03d", max_id + 1) writes, the final NUL apart
generate_unique_id(iv) == <<"P">> \o Fmt03d(MaxIdUpTo(iv, Len(iv)) + 1)

-----------------------------------------------------------------------------
(* file.c *)

\* fprintf(f, "%s,%s,%s,%d,%.2f,%d,%s\n", ...), the line end apart
FormatLine(p) ==
    p.name \o <<",">> \o StrId(p) \o <<",">> \o p.category \o <<",">>
        \o FmtD(p.quantity) \o <<",">> \o Fmt2f(p.price) \o <<",">>
        \o FmtD(p.min_stock) \o <<",">> \o p.date

\* save_inventory: [ret, store]
save_inventory(iv, st, dw) ==
    IF ~dw THEN [ret |-> 0, store |-> st]
    ELSE [ret |-> 1, store |-> File([i \in 1..Len(iv) |-> FormatLine(iv[i])])]

\* the conversions of "%49[^,],%9[^,],%29[^,],%d,%f,%d,%10[^,\n]", a literal
\* comma between each two
LineFormat ==
    <<[kind |-> "set", w |-> NameW, stops |-> {","}],
      [kind |-> "set", w |-> IdW, stops |-> {","}],
      [kind |-> "set", w |-> CatW, stops |-> {","}],
      [kind |-> "d", w |-> 0, stops |-> {}],
      [kind |-> "f", w |-> 0, stops |-> {}],
      [kind |-> "d", w |-> 0, stops |-> {}],
      [kind |-> "set", w |-> DateW, stops |-> {",", "\n"}]>>

Convert(s, c, i) ==
    IF c.kind = "set" THEN ScanSet(s, i, c.w, c.stops)
    ELSE IF c.kind = "d" THEN ScanD(s, i)
    ELSE ScanF(s, i)

\* sscanf after the first k conversions of LineFormat: n fields assigned,
\* their values, and the position reached.  It stops at the first literal or
\* conversion that does not match.
RECURSIVE ScanFmt(_, _)
ScanFmt(s, k) ==
    IF k = 0 THEN [n |-> 0, vals |-> <<>>, next |-> 1]
    ELSE CHOOSE r \in
             {IF prev.n < k - 1 THEN prev
              ELSE IF k > 1 /\ ~Comma(s, prev.next) THEN prev
              ELSE CHOOSE q \in
                       {IF ~c.ok THEN prev
                        ELSE [n |-> k, vals |-> Append(prev.vals, c.val),
                              next |-> c.next]
                        : c \in {Convert(s, LineFormat[k],
                                         IF k > 1 THEN prev.next + 1
                                         ELSE prev.next)}} : TRUE
              : prev \in {ScanFmt(s, k - 1)}} : TRUE

\* sscanf(line, ..., p.name, p.id, p.category, &p.quantity, &p.price,
\* &p.min_stock, p.date): n is the number of fields assigned, p the Prod
ParseLine(line) ==
    CHOOSE r \in
        {[n |-> f.n,
          p |-> IF f.n = 7
                THEN [name |-> f.vals[1], id |-> f.vals[2],
                      category |-> f.vals[3], quantity |-> f.vals[4],
                      price |-> f.vals[5], min_stock |-> f.vals[6],
                      date |-> f.vals[7]]
                ELSE Null]
         : f \in {ScanFmt(line, Len(LineFormat))}} : TRUE

Accepted(r) == r.n = 7

\* what successive fgets(line, sizeof(line), f) return for the characters s
\* of one line of the file, its newline included: pieces of at most
\* LineBuf - 1 characters
RECURSIVE Pieces(_)
Pieces(s) ==
    IF Len(s) <= LineBuf - 1 THEN <<s>>
    ELSE <<SubSeq(s, 1, LineBuf - 1)>> \o Pieces(SubSeq(s, LineBuf, Len(s)))

\* line[strcspn(line, "\n")] = '\0'
StripNewline(s) ==
    IF Len(s) > 0 /\ s[Len(s)] = "\n" THEN SubSeq(s, 1, Len(s) - 1) ELSE s

\* the strings the loop of load_inventory hands to sscanf for the first k
\* lines of the file
RECURSIVE ReadsUpTo(_, _)
ReadsUpTo(lines, k) ==
    IF k = 0 THEN <<>>
    ELSE ReadsUpTo(lines, k - 1) \o
         (CHOOSE r \in {[j \in 1..Len(ps) |-> StripNewline(ps[j])]
                           : ps \in {Pieces(Append(lines[k], "\n"))}} : TRUE)

\* a line shorter than the buffer is read whole
Reads(lines) ==
    IF \A i \in 1..Len(lines) : Len(lines[i]) < LineBuf - 1 THEN lines
    ELSE ReadsUpTo(lines, Len(lines))

\* load_inventory: [ret, inv]
load_inventory(iv, st) ==
    IF ~st.exists THEN [ret |-> 0, inv |-> iv]
    ELSE CHOOSE r \in
             {[ret |-> 1,
               inv |-> [i \in 1..(IF Len(good) < Max THEN Len(good) ELSE Max)
                           |-> good[i].p]]
              : good \in {SelectSeq([i \in 1..Len(rd) |-> ParseLine(rd[i])],
                                     Accepted)
                           : rd \in {Reads(st.lines)}}}
             : TRUE

-----------------------------------------------------------------------------
(* modification.c *)

\* search_product_by_id: the first index (from 0) whose id is id, or -1
search_product_by_id(iv, id) ==
    IF \E i \in 1..Len(iv) : StrId(iv[i]) = id
    THEN (CHOOSE i \in 1..Len(iv) :
              /\ StrId(iv[i]) = id
              /\ \A j \in 1..(i - 1) : StrId(iv[j]) # id) - 1
    ELSE -1

\* the line log_inventory_change prints after its time stamp, or Null when
\* it prints none
LogLine(change, before, after) ==
    IF change = "ADD_PRODUCT" /\ after # Null
    THEN [action |-> "ADDED", name |-> after.name, id |-> StrId(after),
          detail |-> <<FmtD(after.quantity), Fmt2f(after.price)>>]
    ELSE IF change = "DELETE_PRODUCT" /\ before # Null
    THEN [action |-> "DELETED", name |-> before.name, id |-> StrId(before),
          detail |-> <<FmtD(before.quantity), Fmt2f(before.price)>>]
    ELSE IF change = "MODIFY_PRODUCT" /\ before # Null /\ after # Null
    THEN [action |-> "MODIFIED", name |-> after.name, id |-> StrId(after),
          detail |-> <<>>]
    ELSE Null

\* log_inventory_change: the log afterwards.  fopen(LOG_FILE, "a") creates
\* the file when it is missing.
log_inventory_change(change, before, after, lg, lw) ==
    IF ~lw THEN lg
    ELSE LET line == LogLine(change, before, after)
         IN  File(IF line = Null THEN lg.lines ELSE Append(lg.lines, line))

\* add_product inserting at products[0] instead of appending
add_product_front(iv, p, st, lg, dw, lw) ==
    IF Len(iv) >= Max
    THEN [ret |-> 0, inv |-> iv, store |-> st, log |-> lg]
    ELSE IF search_product_by_id(iv, StrId(p)) # -1
    THEN [ret |-> 0, inv |-> iv, store |-> st, log |-> lg]
    ELSE CHOOSE r \in
             {[ret |-> 1, inv |-> iv2,
               store |-> save_inventory(iv2, st, dw).store,
               log |-> log_inventory_change("ADD_PRODUCT", Null, p, lg, lw)]
              : iv2 \in {<<p>> \o iv}} : TRUE

\* add_product logging the product before it looks for its id
add_product_logs_first(iv, p, st, lg, dw, lw) ==
    IF Len(iv) >= Max
    THEN [ret |-> 0, inv |-> iv, store |-> st, log |-> lg]
    ELSE IF search_product_by_id(iv, StrId(p)) # -1
    THEN [ret |-> 0, inv |-> iv, store |-> st,
          log |-> log_inventory_change("ADD_PRODUCT", Null, p, lg, lw)]
    ELSE CHOOSE r \in
             {[ret |-> 1, inv |-> iv2,
               store |-> save_inventory(iv2, st, dw).store,
               log |-> log_inventory_change("ADD_PRODUCT", Null, p, lg, lw)]
              : iv2 \in {Append(iv, p)}} : TRUE

\* add_product taking the product back, and returning 0, when the save fails
add_product_rolls_back(iv, p, st, lg, dw, lw) ==
    IF Len(iv) >= Max
    THEN [ret |-> 0, inv |-> iv, store |-> st, log |-> lg]
    ELSE IF search_product_by_id(iv, StrId(p)) # -1
    THEN [ret |-> 0, inv |-> iv, store |-> st, log |-> lg]
    ELSE CHOOSE r \in
             {[ret |-> s.ret,
               inv |-> IF s.ret = 1 THEN iv2 ELSE iv,
               store |-> s.store,
               log |-> log_inventory_change("ADD_PRODUCT", Null, p, lg, lw)]
              : s \in {save_inventory(iv2, st, dw) : iv2 \in {Append(iv, p)}},
                iv2 \in {Append(iv, p)}} : TRUE

\* add_product: [ret, inv, store, log]
add_product(iv, p, st, lg, dw, lw) ==
    IF Len(iv) >= Max
    THEN [ret |-> 0, inv |-> iv, store |-> st, log |-> lg]
    ELSE IF search_product_by_id(iv, StrId(p)) # -1
    THEN [ret |-> 0, inv |-> iv, store |-> st, log |-> lg]
    ELSE CHOOSE r \in
             {[ret |-> 1, inv |-> iv2,
               store |-> save_inventory(iv2, st, dw).store,
               log |-> log_inventory_change("ADD_PRODUCT", Null, p, lg, lw)]
              : iv2 \in {Append(iv, p)}} : TRUE

\* modify_product storing each number typed, negative or not
modify_product_unchecked(iv, id, in, st, lg, dw, lw) ==
    LET index == search_product_by_id(iv, id)
    IN  IF index = -1
        THEN [ret |-> 0, inv |-> iv, store |-> st, log |-> lg]
        ELSE LET original == iv[index + 1]
                 p5 == [original EXCEPT !.name = in.name,
                                        !.category = in.category,
                                        !.quantity = in.quantity,
                                        !.price = in.price,
                                        !.min_stock = in.min_stock]
                 iv2 == [iv EXCEPT ![index + 1] = p5]
             IN  [ret |-> 1, inv |-> iv2,
                  store |-> save_inventory(iv2, st, dw).store,
                  log |-> log_inventory_change("MODIFY_PRODUCT", original, p5, lg, lw)]

\* modify_product with the five answers typed at its prompts: [ret, inv, store, log]
modify_product(iv, id, in, st, lg, dw, lw) ==
    LET index == search_product_by_id(iv, id)
    IN  IF index = -1
        THEN [ret |-> 0, inv |-> iv, store |-> st, log |-> lg]
        ELSE LET original == iv[index + 1]
                 p1 == IF Len(in.name) > 0
                       THEN [original EXCEPT !.name = in.name] ELSE original
                 p2 == IF Len(in.category) > 0
                       THEN [p1 EXCEPT !.category = in.category] ELSE p1
                 p3 == IF in.quantity >= 0
                       THEN [p2 EXCEPT !.quantity = in.quantity] ELSE p2
                 p4 == IF in.price >= 0
                       THEN [p3 EXCEPT !.price = in.price] ELSE p3
                 p5 == IF in.min_stock >= 0
                       THEN [p4 EXCEPT !.min_stock = in.min_stock] ELSE p4
                 iv2 == [iv EXCEPT ![index + 1] = p5]
             IN  [ret |-> 1, inv |-> iv2,
                  store |-> save_inventory(iv2, st, dw).store,
                  log |-> log_inventory_change("MODIFY_PRODUCT", original, p5, lg, lw)]

\* delete_product logging the deletion before it asks for confirmation
delete_product_logs_first(iv, id, confirm, st, lg, dw, lw) ==
    LET index == search_product_by_id(iv, id)
    IN  IF index = -1
        THEN [ret |-> 0, inv |-> iv, store |-> st, log |-> lg]
        ELSE IF confirm # "y" /\ confirm # "Y"
        THEN [ret |-> 0, inv |-> iv, store |-> st,
              log |-> log_inventory_change("DELETE_PRODUCT", iv[index + 1], Null, lg, lw)]
        ELSE LET deleted == iv[index + 1]
                 iv2 == [i \in 1..(Len(iv) - 1) |->
                            IF i < index + 1 THEN iv[i] ELSE iv[i + 1]]
             IN  [ret |-> 1, inv |-> iv2,
                  store |-> save_inventory(iv2, st, dw).store,
                  log |-> log_inventory_change("DELETE_PRODUCT", deleted, Null, lg, lw)]

\* delete_product with the answer typed at its confirmation: [ret, inv, store, log]
delete_product(iv, id, confirm, st, lg, dw, lw) ==
    LET index == search_product_by_id(iv, id)
    IN  IF index = -1
        THEN [ret |-> 0, inv |-> iv, store |-> st, log |-> lg]
        ELSE IF confirm # "y" /\ confirm # "Y"
        THEN [ret |-> 0, inv |-> iv, store |-> st, log |-> lg]
        ELSE LET deleted == iv[index + 1]
                 iv2 == [i \in 1..(Len(iv) - 1) |->
                            IF i < index + 1 THEN iv[i] ELSE iv[i + 1]]
             IN  [ret |-> 1, inv |-> iv2,
                  store |-> save_inventory(iv2, st, dw).store,
                  log |-> log_inventory_change("DELETE_PRODUCT", deleted, Null, lg, lw)]

\* reset_inventory: [inv, store, log]
reset_inventory(iv, st, lg, dw, lw) ==
    [inv |-> <<>>,
     store |-> IF dw THEN File(<<>>) ELSE st,
     log |-> IF lw THEN File(<<>>) ELSE lg]

-----------------------------------------------------------------------------
(* display.c *)

\* display_recent_changes reads past lines[99] when the log holds more than
\* LinesMax lines
RecentOverflows(lg) == lg.exists /\ Len(lg.lines) > LinesMax

\* the lines display_recent_changes(count) prints
display_recent_changes(count, lg) ==
    IF ~lg.exists THEN <<>>
    ELSE LET total == IF Len(lg.lines) < LinesMax THEN Len(lg.lines) ELSE LinesMax
             start == IF total > count THEN total - count ELSE 0
         IN  SubSeq(lg.lines, start + 1, total)

\* input_product on init_prod's record, with the five answers typed
input_product(p, in) ==
    [p EXCEPT !.name = in.name, !.category = in.category,
              !.quantity = in.quantity, !.price = in.price,
              !.min_stock = in.min_stock, !.date = Today]

-----------------------------------------------------------------------------
(* The store files and logs a run starts from, and what is typed *)

LineTea ==
    <<"T", "e", "a", ",", "P", "0", "0", "1", ",", "F", "o", "o", "d", ",",
      "1", "0", ",", "5", "0", "0", ".", "0", "0", ",", "5", ",", "2", "0",
      "2", "5", "-", "0", "1", "-", "0", "2">>

LineSalt ==
    <<"S", "a", "l", "t", ",", "P", "0", "0", "3", ",", "F", "o", "o", "d",
      ",", "7", ",", "1", ".", "5", "0", ",", "5", ",", "2", "0", "2", "5",
      "-", "0", "1", "-", "0", "2">>

LineMilk ==
    <<"M", "i", "l", "k", ",", "P", "0", "1", "0", ",", "F", "o", "o", "d",
      ",", "2", ",", "3", ".", "2", "5", ",", "5", ",", "2", "0", "2", "5",
      "-", "0", "1", "-", "0", "2">>

\* the id of LineTea again
LineOil ==
    <<"O", "i", "l", ",", "P", "0", "0", "1", ",", "F", "o", "o", "d", ",",
      "4", ",", "9", ".", "0", "0", ",", "5", ",", "2", "0", "2", "5", "-",
      "0", "1", "-", "0", "3">>

\* no comma at all
LineJunk ==
    <<"j", "u", "n", "k">>

\* a negative quantity, price and threshold
LineDebt ==
    <<"D", "e", "b", "t", ",", "P", "0", "0", "2", ",", "M", "i", "s", "c",
      ",", "-", "4", ",", "-", "2", ".", "5", "0", ",", "-", "1", ",", "2",
      "0", "2", "5", "-", "0", "1", "-", "0", "3">>

\* an id that does not start with P
LinePen ==
    <<"P", "e", "n", ",", "Q", "7", ",", "M", "i", "s", "c", ",", "1", ",",
      "0", ".", "1", "0", ",", "0", ",", "2", "0", "2", "5", "-", "0", "1",
      "-", "0", "3">>

\* the largest number an id of IdW characters holds
LineLast ==
    <<"L", "a", "s", "t", ",", "P", "9", "9", "9", "9", "9", "9", "9", "9",
      ",", "M", "i", "s", "c", ",", "1", ",", "1", ".", "0", "0", ",", "1",
      ",", "2", "0", "2", "5", "-", "0", "1", "-", "0", "3">>

StoreFiles ==
    {NoFile,
     File(<<>>),
     File(<<LineTea, LineSalt, LineMilk>>),
     File(<<LineTea, LineOil>>),
     File(<<LineJunk, LineDebt>>),
     File(<<LinePen, LineLast>>)}

\* a line an earlier run left in the log
OldLogLine ==
    [action |-> "ADDED", name |-> <<"T", "e", "a">>,
     id |-> <<"P", "0", "0", "1">>,
     detail |-> <<<<"1", "0">>, <<"5", "0", "0", ".", "0", "0">>>>]

\* the change log at startup: absent, or left by an earlier run
LogFiles == {NoFile, File(<<OldLogLine>>)}

\* the answers typed at the prompts of input_product
AddInputs ==
    {[name |-> <<"R", "i", "c", "e">>, category |-> <<"F", "o", "o", "d">>,
      quantity |-> 10, price |-> 500000, min_stock |-> 5],
     [name |-> <<"a", ",", "b">>, category |-> <<"F", "o", "o", "d">>,
      quantity |-> 1, price |-> 1004, min_stock |-> 1],
     [name |-> <<"O", "i", "l">>, category |-> <<"F", "o", "o", "d">>,
      quantity |-> -3, price |-> -2500, min_stock |-> -1]}

\* the answers typed at the prompts of modify_product
ModifyInputs ==
    {[name |-> <<"R", "i", "c", "e">>, category |-> <<"F", "o", "o", "d">>,
      quantity |-> 5, price |-> -1000, min_stock |-> -1],
     [name |-> <<"R", "i", "z">>, category |-> <<"G", "r", "a", "i", "n">>,
      quantity |-> -1, price |-> 250000, min_stock |-> 0]}

\* an id no product of the model has
AbsentId == <<"P", "4", "0", "4">>

\* the ids typed at "%9s": those of the inventory that fit, and an absent one
TargetIds(iv) ==
    {StrId(iv[i]) : i \in {j \in 1..Len(iv) : Len(StrId(iv[j])) <= IdW}}
        \cup {AbsentId}

Confirms == {"y", "Y", "n"}

\* the record of an operation: its name, the id typed or generated, the Prod
\* passed, the count passed, and the value returned
Did(op, id, p, n, ret) == [op |-> op, id |-> id, p |-> p, n |-> n, ret |-> ret]

NoOp == Did("none", <<>>, Null, 0, 0)

-----------------------------------------------------------------------------
(* main(), source.c *)

Init ==
    /\ pc = "boot"
    /\ inv = <<>>
    /\ store \in StoreFiles
    /\ log \in LogFiles
    /\ dataWritable \in BOOLEAN
    /\ logWritable \in BOOLEAN
    /\ last = NoOp
    /\ out = <<>>
    /\ steps = 0

\* init_invent(&inventory); load_inventory(&inventory);
Startup ==
    /\ pc = "boot"
    /\ \E r \in {load_inventory(init_invent, store)} :
           /\ inv' = r.inv
           /\ last' = Did("load", <<>>, Null, 0, r.ret)
    /\ pc' = "menu"
    /\ UNCHANGED <<store, log, dataWritable, logWritable, out, steps>>

\* sprintf(id, "P%03d", ...) needs the id and its NUL: more than id[10] holds
IdOverflows(iv) == Len(generate_unique_id(iv)) + 1 > IdSize

\* case 1, up to the call of add_product: init_prod, input_product,
\* generate_unique_id.  What sprintf writes past id[10] lands in category.
NewProduct(iv, in) ==
    CHOOSE r \in
        {IF Len(gid) + 1 <= IdSize
         THEN [input_product(init_prod, in) EXCEPT !.id = gid]
         ELSE [input_product(init_prod, in) EXCEPT
                   !.id = SubSeq(gid, 1, IdSize),
                   !.category = SubSeq(gid, IdSize + 1, Len(gid))]
         : gid \in {generate_unique_id(iv)}} : TRUE

\* case 1: add a product
MenuAdd(in) ==
    /\ pc = "menu"
    /\ steps < MaxSteps
    /\ \E p \in {NewProduct(inv, in)} :
       \E r \in {add_product(inv, p, store, log, dataWritable, logWritable)} :
           /\ inv' = r.inv
           /\ store' = r.store
           /\ log' = r.log
           /\ last' = Did("add", StrId(p), p, 0, r.ret)
    /\ steps' = steps + 1
    /\ UNCHANGED <<pc, dataWritable, logWritable, out>>

\* case 1 when the generated id overflows id[10] and the write is trapped
MenuAddTrap ==
    /\ pc = "menu"
    /\ steps < MaxSteps
    /\ IdOverflows(inv)
    /\ pc' = "crashed"
    /\ last' = Did("add", <<>>, Null, 0, -1)
    /\ steps' = steps + 1
    /\ UNCHANGED <<inv, store, log, dataWritable, logWritable, out>>

\* case 2: modify a product
MenuModify(id, in) ==
    /\ pc = "menu"
    /\ steps < MaxSteps
    /\ \E r \in {modify_product(inv, id, in, store, log, dataWritable, logWritable)} :
           /\ inv' = r.inv
           /\ store' = r.store
           /\ log' = r.log
           /\ last' = Did("modify", id, Null, 0, r.ret)
    /\ steps' = steps + 1
    /\ UNCHANGED <<pc, dataWritable, logWritable, out>>

\* case 3: delete a product
MenuDelete(id, confirm) ==
    /\ pc = "menu"
    /\ steps < MaxSteps
    /\ \E r \in {delete_product(inv, id, confirm, store, log, dataWritable, logWritable)} :
           /\ inv' = r.inv
           /\ store' = r.store
           /\ log' = r.log
           /\ last' = Did("delete", id, Null, 0, r.ret)
    /\ steps' = steps + 1
    /\ UNCHANGED <<pc, dataWritable, logWritable, out>>

\* display_recent_changes(n), when its reads stay inside lines[100] or the
\* write past it goes unnoticed
ShowRecent(n) ==
    /\ pc = "menu"
    /\ out' = display_recent_changes(n, log)
    /\ last' = Did("recent", <<>>, Null, n, 0)
    /\ UNCHANGED <<pc, inv, store, log, dataWritable, logWritable>>

\* case 8: view recent changes
MenuRecent ==
    /\ steps < MaxSteps
    /\ ShowRecent(MenuRecentCount)
    /\ steps' = steps + 1

\* case 9, answered y or Y: reset inventory and history
MenuReset ==
    /\ pc = "menu"
    /\ steps < MaxSteps
    /\ \E r \in {reset_inventory(inv, store, log, dataWritable, logWritable)} :
           /\ inv' = r.inv
           /\ store' = r.store
           /\ log' = r.log
    /\ last' = Did("reset", <<>>, Null, 0, 0)
    /\ steps' = steps + 1
    /\ UNCHANGED <<pc, dataWritable, logWritable, out>>

\* the environment: a file becomes unwritable (locked, read-only), or writable again
FsEvent ==
    /\ pc = "menu"
    /\ steps < MaxSteps
    /\ \/ dataWritable' = ~dataWritable /\ UNCHANGED logWritable
       \/ logWritable' = ~logWritable /\ UNCHANGED dataWritable
    /\ last' = Did("fs", <<>>, Null, 0, 0)
    /\ steps' = steps + 1
    /\ UNCHANGED <<pc, inv, store, log, out>>

Next ==
    \/ Startup
    \/ \E in \in AddInputs : MenuAdd(in)
    \/ MenuAddTrap
    \/ \E id \in TargetIds(inv), in \in ModifyInputs : MenuModify(id, in)
    \/ \E id \in TargetIds(inv), c \in Confirms : MenuDelete(id, c)
    \/ MenuRecent
    \/ MenuReset
    \/ FsEvent

Spec == Init /\ [][Next]_vars

-----------------------------------------------------------------------------
(* add_product called on its own, with any Prod: the same start, then calls *)
(* of add_product with ids that may or may not be in the inventory          *)

\* a line of a large store: product number i
BigLine(i) ==
    <<"n", ",", "P">> \o Fmt03d(i)
        \o <<",", "c", ",", "1", ",", "1", ".", "0", "0", ",", "1", ",", "d">>

BigFile(k) == File([i \in 1..k |-> BigLine(i)])

\* a line longer than the line buffer of load_inventory: LineBuf - 1
\* characters and then, before the newline, the text of LineTea
LineLong == [i \in 1..(LineBuf - 1) |-> "x"] \o LineTea

\* a record followed by an eighth field, and one whose date is too long
LineExtra == LineSalt \o <<",", "x">>
LineLate == LineMilk \o <<"X", "Y", "Z">>

\* stores of one product less than the capacity, and of one more; stores
\* with lines that are no records among lines that are
ApiFiles ==
    {NoFile, File(<<LineTea, LineOil>>), BigFile(Max - 1), BigFile(Max + 1),
     File(<<LineJunk, LineTea, <<>>, LinePen, LineJunk, LineSalt>>),
     File(<<LineSalt, LineLong, LineMilk>>),
     File(<<LineExtra, LineLate>>)}

ApiIds ==
    {<<"P", "0", "0", "1">>, <<"P", "5", "0", "0", "0">>,
     <<"P", "5", "0", "0", "1">>}

ApiProds ==
    {[input_product(init_prod, in) EXCEPT !.id = id] :
        in \in {x \in AddInputs : x.quantity = 10}, id \in ApiIds}

InitApi ==
    /\ pc = "boot"
    /\ inv = <<>>
    /\ store \in ApiFiles
    /\ log = NoFile
    /\ dataWritable \in BOOLEAN
    /\ logWritable \in BOOLEAN
    /\ last = NoOp
    /\ out = <<>>
    /\ steps = 0

CallAdd(p) ==
    /\ pc = "menu"
    /\ steps < MaxSteps
    /\ \E r \in {add_product(inv, p, store, log, dataWritable, logWritable)} :
           /\ inv' = r.inv
           /\ store' = r.store
           /\ log' = r.log
           /\ last' = Did("add", StrId(p), p, 0, r.ret)
    /\ steps' = steps + 1
    /\ UNCHANGED <<pc, dataWritable, logWritable, out>>

NextApi ==
    \/ Startup
    \/ \E p \in ApiProds : CallAdd(p)

SpecApi == InitApi /\ [][NextApi]_vars

-----------------------------------------------------------------------------
(* display_recent_changes called on its own, with any count, on logs of    *)
(* a few lines and of about LinesMax lines                                 *)

\* line number i of a log
RecentLine(i) ==
    [action |-> "ADDED", name |-> <<"n">>, id |-> <<"P">> \o Fmt03d(i),
     detail |-> <<<<"1">>, <<"1", ".", "0", "0">>>>]

RecentLog(k) == File([i \in 1..k |-> RecentLine(i)])

RecentLengths ==
    (0..MaxShown) \cup {LinesMax - 1, LinesMax, LinesMax + 1, LinesMax + 2}

RecentLogs == {NoFile} \cup {RecentLog(k) : k \in RecentLengths}

RecentCounts ==
    (0..MaxShown) \cup {MenuRecentCount, LinesMax - 1, LinesMax, LinesMax + 1}

InitRecent ==
    /\ pc = "menu"
    /\ inv = <<>>
    /\ store = NoFile
    /\ log \in RecentLogs
    /\ dataWritable = TRUE
    /\ logWritable = TRUE
    /\ last = NoOp
    /\ out = <<>>
    /\ steps = 0

CallRecent(n) == ShowRecent(n) /\ UNCHANGED steps

\* display_recent_changes when the write past lines[99] is trapped
RecentTrap ==
    /\ pc = "menu"
    /\ RecentOverflows(log)
    /\ pc' = "crashed"
    /\ last' = Did("recent", <<>>, Null, 0, -1)
    /\ UNCHANGED <<inv, store, log, dataWritable, logWritable, out, steps>>

NextRecent ==
    \/ \E n \in RecentCounts : CallRecent(n)
    \/ RecentTrap

SpecRecent == InitRecent /\ [][NextRecent]_vars

-----------------------------------------------------------------------------
(* Properties *)

\* the positions of the inventory that hold the id
Holders(iv, id) == {i \in 1..Len(iv) : StrId(iv[i]) = id}

\* C1: in every state from startup on, no two products of the inventory
\* have the same id.
C1_UniqueIds ==
    pc = "menu" =>
        \A i, j \in 1..Len(inv) : StrId(inv[i]) = StrId(inv[j]) => i = j

\* C2: add_product of a Prod whose id is not in an inventory of fewer than
\* Max products returns 1, makes product_count one more, puts the Prod at
\* the old product_count, where search_product_by_id finds it, and leaves
\* every earlier record where and as it was.
C2_AddAppends ==
    [][(/\ last'.op = "add"
        /\ Len(inv) < Max
        /\ Holders(inv, last'.id) = {})
       => /\ last'.ret = 1
          /\ Len(inv') = Len(inv) + 1
          /\ search_product_by_id(inv', last'.id) = Len(inv)
          /\ inv'[Len(inv) + 1] = last'.p
          /\ \A i \in 1..Len(inv) : inv'[i] = inv[i]]_vars

\* an add_product that succeeded on an inventory that already held products
C2_Witness ==
    /\ last.op = "add"
    /\ last.ret = 1
    /\ Len(inv) >= 3
    /\ inv[Len(inv)] = last.p

\* C3: add_product returns 0 exactly when the inventory holds Max products
\* or already holds the id, and then the inventory, the store file and the
\* change log are unchanged.
C3_FailedAddChangesNothing ==
    [][last'.op = "add"
       => /\ last'.ret = 0 <=> (Len(inv) >= Max \/ Holders(inv, last'.id) # {})
          /\ last'.ret = 0 => inv' = inv /\ store' = store /\ log' = log]_vars

\* an add_product refused by a full inventory
C3_Witness ==
    /\ last.op = "add"
    /\ last.ret = 0
    /\ Len(inv) = Max

\* C4: a confirmed delete_product of an id found at index k makes
\* product_count one less, leaves the records before k, moves each record
\* after k one place down, and afterwards search_product_by_id does not
\* find the id.
C4_DeleteShifts ==
    [][(last'.op = "delete" /\ last'.ret = 1)
       => LET k == search_product_by_id(inv, last'.id) + 1
          IN  /\ k >= 1
              /\ Len(inv') = Len(inv) - 1
              /\ \A i \in 1..(k - 1) : inv'[i] = inv[i]
              /\ \A i \in (k + 1)..Len(inv) : inv'[i - 1] = inv[i]
              /\ search_product_by_id(inv', last'.id) = -1]_vars

\* the same records in the same order, prices compared to two decimals
SameInventory(a, b) ==
    /\ Len(a) = Len(b)
    /\ \A i \in 1..Len(a) :
           /\ a[i].name = b[i].name
           /\ StrId(a[i]) = StrId(b[i])
           /\ a[i].category = b[i].category
           /\ a[i].quantity = b[i].quantity
           /\ Fmt2f(a[i].price) = Fmt2f(b[i].price)
           /\ a[i].min_stock = b[i].min_stock
           /\ a[i].date = b[i].date

\* C5: after an add or a modify has saved the inventory, load_inventory of
\* the store into a fresh inventory gives the same records in the same order.
C5_RoundTrip ==
    (/\ pc = "menu"
     /\ last.op \in {"add", "modify"}
     /\ last.ret = 1
     /\ dataWritable)
    => SameInventory(load_inventory(init_invent, store).inv, inv)

\* the largest number after the P of an id of the inventory, 0 without one
SuffixMax(iv) ==
    LET nums == {atoi(Tail(StrId(iv[i]))) :
                    i \in {j \in 1..Len(iv) : HasPrefixP(StrId(iv[j]))}}
                    \cup {0}
    IN  CHOOSE m \in nums : \A x \in nums : x <= m

\* C6: the id case 1 of the menu gives a new product is P followed by the
\* decimal digits of SuffixMax + 1, padded with zeros to three digits and
\* not beyond, and it is the id of no product of the inventory.
C6_GeneratedId ==
    [][(last'.op = "add" /\ pc' = "menu")
       => LET digits == Tail(last'.id)
          IN  /\ last'.id[1] = "P"
              /\ \A k \in 1..Len(digits) : IsDigit(digits[k])
              /\ DecVal(digits) = SuffixMax(inv) + 1
              /\ Len(digits) >= 3
              /\ Len(digits) > 3 => digits[1] # "0"
              /\ Holders(inv, last'.id) = {}]_vars

\* P011 generated for an inventory that holds P001, P003 and P010
C6_Witness ==
    /\ last.op = "add"
    /\ last.ret = 1
    /\ Len(inv) = 4
    /\ inv[1].id = <<"P", "0", "0", "1">>
    /\ inv[2].id = <<"P", "0", "0", "3">>
    /\ inv[3].id = <<"P", "0", "1", "0">>
    /\ inv[4].id = <<"P", "0", "1", "1">>
    /\ last.id = <<"P", "0", "1", "1">>

\* the line a successful add, modify or delete is to append, from the
\* inventory before (iv) and after (iv2) it
ChangeLine(d, iv, iv2) ==
    IF d.op = "add"
    THEN [action |-> "ADDED", name |-> d.p.name, id |-> d.id,
          detail |-> <<FmtD(d.p.quantity), Fmt2f(d.p.price)>>]
    ELSE LET k == CHOOSE i \in Holders(iv, d.id) :
                      \A j \in Holders(iv, d.id) : i <= j
         IN  IF d.op = "modify"
             THEN [action |-> "MODIFIED", name |-> iv2[k].name, id |-> d.id,
                   detail |-> <<>>]
             ELSE [action |-> "DELETED", name |-> iv[k].name, id |-> d.id,
                   detail |-> <<FmtD(iv[k].quantity), Fmt2f(iv[k].price)>>]

\* C7 as stated: every successful add, modify and delete appends its line
\* to the log, every failed or cancelled one leaves the log as it is, and
\* the lines already there stay.
C7_LogEverySuccess ==
    [][(last'.op \in {"add", "modify", "delete"} /\ pc' = "menu")
       => IF last'.ret = 1
          THEN log' = File(Append(log.lines, ChangeLine(last', inv, inv')))
          ELSE log' = log]_vars

\* C7 amended: a successful add, modify or delete appends its line when
\* the log can be opened for appending, and leaves the log as it is when
\* it cannot; a failed or cancelled one leaves the log as it is.
C7_LogWhenWritable ==
    [][(last'.op \in {"add", "modify", "delete"} /\ pc' = "menu")
       => IF last'.ret = 1 /\ logWritable
          THEN log' = File(Append(log.lines, ChangeLine(last', inv, inv')))
          ELSE log' = log]_vars

\* add, modify to quantity 5, delete of one product: ADDED, MODIFIED and
\* DELETED in that order, the last with the quantity and price after the modify
C7_Witness ==
    /\ Len(inv) = 0
    /\ Len(log.lines) = 3
    /\ log.lines[1].action = "ADDED"
    /\ log.lines[1].detail = <<<<"1", "0">>, <<"5", "0", "0", ".", "0", "0">>>>
    /\ log.lines[2].action = "MODIFIED"
    /\ log.lines[3].action = "DELETED"
    /\ log.lines[3].detail = <<<<"5">>, <<"5", "0", "0", ".", "0", "0">>>>
    /\ \A i \in 1..3 : log.lines[i].id = <<"P", "0", "0", "1">>

\* C8: display_recent_changes(n) prints the last min(n, L) lines of a log
\* of L lines, in their order.
C8_LastLines ==
    (last.op = "recent" /\ pc = "menu")
    => LET L == Len(log.lines)
           m == IF last.n < L THEN last.n ELSE L
       IN  out = SubSeq(log.lines, L - m + 1, L)

\* C9: after reset_inventory the inventory, the store file and the change
\* log are empty: display_recent_changes prints nothing and load_inventory
\* loads nothing.
C9_ResetEmpties ==
    last.op = "reset"
    => /\ Len(inv) = 0
       /\ store.lines = <<>>
       /\ log.lines = <<>>
       /\ display_recent_changes(MenuRecentCount, log) = <<>>
       /\ Len(load_inventory(init_invent, store).inv) = 0

\* C10: every product of the inventory has a quantity, a price and a
\* threshold that are not negative.
C10_NonNegative ==
    pc = "menu" =>
        \A i \in 1..Len(inv) :
            inv[i].quantity >= 0 /\ inv[i].price >= 0 /\ inv[i].min_stock >= 0

\* the first n elements of a sequence, all of them when it has fewer
FirstN(q, n) == SubSeq(q, 1, IF Len(q) < n THEN Len(q) ELSE n)

\* the line, taken whole, parses into the 7 fields
WellFormed(line) == ParseLine(line).n = 7

\* the record a well-formed line stands for
RecordOf(line) == ParseLine(line).p

\* C11: after load_inventory at startup on an existing store the inventory
\* is the records of the store's well-formed lines, in file order, the
\* first Max of them at most, and 1 is returned; without a store 0 is
\* returned and the inventory is empty.
C11_LoadsWellFormedLines ==
    last.op = "load"
    => IF store.exists
       THEN /\ last.ret = 1
            /\ \E wf \in {FirstN(SelectSeq(store.lines, WellFormed), Max)} :
                   /\ Len(inv) = Len(wf)
                   /\ \A i \in 1..Len(wf) : inv[i] = RecordOf(wf[i])
       ELSE last.ret = 0 /\ Len(inv) = 0

\* the number a numeric field holds after a modify: the one typed when it
\* is not negative, the one it held otherwise
Entered(typed, held) == IF typed >= 0 THEN typed ELSE held

\* what a modify of id with the answers in is to do to the inventory
ModifyEffect(id, in) ==
    IF Holders(inv, id) = {}
    THEN /\ last'.ret = 0
         /\ inv' = inv
         /\ store' = store
         /\ log' = log
    ELSE LET k == CHOOSE i \in Holders(inv, id) :
                      \A j \in Holders(inv, id) : i <= j
         IN  /\ last'.ret = 1
             /\ Len(inv') = Len(inv)
             /\ \A i \in (1..Len(inv)) \ {k} : inv'[i] = inv[i]
             /\ inv'[k].id = inv[k].id
             /\ inv'[k].date = inv[k].date
             /\ inv'[k].name = in.name
             /\ inv'[k].category = in.category
             /\ inv'[k].quantity = Entered(in.quantity, inv[k].quantity)
             /\ inv'[k].price = Entered(in.price, inv[k].price)
             /\ inv'[k].min_stock = Entered(in.min_stock, inv[k].min_stock)

\* C12: a successful modify_product changes, of the first product with the
\* id, the name and category to the ones typed and each of quantity, price
\* and min_stock exactly when the number typed is not negative; its id, its
\* date, the count, the order and every other product stay.  On an absent
\* id it returns 0 and the inventory, the store and the log stay.
C12_ModifyFrame ==
    [][last'.op = "modify"
       => \A in \in ModifyInputs : \A id \in TargetIds(inv) \cap {last'.id} :
              MenuModify(id, in) => ModifyEffect(id, in)]_vars

\* a modify of the first of several products that kept the quantity (a
\* negative number was typed) and overwrote the price and the threshold
C12_Witness ==
    /\ last.op = "modify"
    /\ last.ret = 1
    /\ Len(inv) = 3
    /\ inv[1].name = <<"R", "i", "z">>
    /\ inv[1].id = <<"P", "0", "0", "1">>
    /\ inv[1].quantity = 10
    /\ inv[1].price = 250000
    /\ inv[1].min_stock = 0
    /\ inv[1].date = <<"2", "0", "2", "5", "-", "0", "1", "-", "0", "2">>
    /\ inv[2].name = <<"S", "a", "l", "t">>

\* the lines save_inventory writes for an inventory
Serialized(iv) == [i \in 1..Len(iv) |-> FormatLine(iv[i])]

\* the inventory after the step is the one before it with the product of
\* the step appended
KeptAdd == inv' = Append(inv, last'.p)

\* the inventory after the step is the one before it without the first
\* product with the id
KeptDelete(id) ==
    LET k == CHOOSE i \in Holders(inv, id) :
                 \A j \in Holders(inv, id) : i <= j
    IN  inv' = [i \in 1..(Len(inv) - 1) |->
                   IF i < k THEN inv[i] ELSE inv[i + 1]]

\* an add of a new id, a modify and a confirmed delete of a present id
\* return 1 and change the inventory, whether the store can be written or not
MutationsKept ==
    /\ last'.op = "add"
       => \A in \in AddInputs :
              (MenuAdd(in) /\ Holders(inv, last'.id) = {})
              => last'.ret = 1 /\ KeptAdd
    /\ last'.op = "modify"
       => \A id \in {x \in TargetIds(inv) \cap {last'.id} : Holders(inv, x) # {}} :
              \A in \in ModifyInputs :
                  MenuModify(id, in) => ModifyEffect(id, in)
    /\ last'.op = "delete"
       => \A id \in {x \in TargetIds(inv) \cap {last'.id} : Holders(inv, x) # {}} :
              \A c \in {"y", "Y"} :
                  MenuDelete(id, c) => last'.ret = 1 /\ KeptDelete(id)

\* the step is a successful add, modify or delete
IsMutation ==
    /\ last'.op \in {"add", "modify", "delete"}
    /\ last'.ret = 1
    /\ pc' = "menu"

\* the store after the step: the lines of the new inventory when it can be
\* opened for writing, what it was when it cannot
StoreFollows ==
    IF dataWritable THEN store' = File(Serialized(inv')) ELSE store' = store

\* the log after the step: what it was and the line of the step
LineAppended == log' = File(Append(log.lines, ChangeLine(last', inv, inv')))

\* C13 as stated: when the store cannot be opened for writing during an
\* add, a modify or a confirmed delete, the change is kept in memory, the
\* store keeps its contents, the line of the operation is in the log and 1
\* is returned; a later operation that can write the store makes it the
\* lines of the inventory again.
C13_SaveFailureLogged ==
    [][/\ MutationsKept
       /\ IsMutation => /\ StoreFollows
                        /\ ~dataWritable => LineAppended]_vars

\* C13 amended: the same, the line of the operation being in the log when
\* the log could be opened for appending, the log being as it was when not.
C13_SaveFailure ==
    [][/\ MutationsKept
       /\ IsMutation => /\ StoreFollows
                        /\ ~dataWritable =>
                               IF logWritable THEN LineAppended
                               ELSE log' = log]_vars

\* an add that returned 1 while the store could not be written: the product
\* is in the inventory, its line is in the log, the store lacks it
C13_Witness ==
    /\ last.op = "add"
    /\ last.ret = 1
    /\ ~dataWritable
    /\ Len(inv) >= 2
    /\ inv[Len(inv)] = last.p
    /\ store.lines # Serialized(inv)
    /\ Len(store.lines) = Len(inv) - 1
    /\ Len(log.lines) >= 1
    /\ log.lines[Len(log.lines)].action = "ADDED"
    /\ log.lines[Len(log.lines)].id = last.id

====
